---------------------------- MODULE Spec2Model ----------------------------
(***************************************************************************)
(* A model of the booking platform's serverless handlers (webhook,         *)
(* create-checkout, create-direct-booking, booking-details) and of the     *)
(* spreadsheet row store and payment provider they talk to.                *)
(*                                                                         *)
(* Text is modelled as a sequence of tokens (one-character strings where   *)
(* the code looks inside the text, whole words elsewhere), so that         *)
(* parseInt, split, padStart and startsWith are computed, not assumed.     *)
(* A handler is cut into one action per await: an action delivers the      *)
(* outcome of the pending call (success or rejection) and runs the code up *)
(* to the next await or to the response.                                   *)
(***************************************************************************)
EXTENDS Integers, Sequences, FiniteSets, TLC

VARIABLES
    bookings,   \* the Bookings grid: row 1 is the header, then the data rows
    events,     \* the Events grid: row 1 is the header, then the data rows
    sessions,   \* the payment provider's checkout sessions, by session id
    deployed,   \* which version of each endpoint's handler is deployed
    req,        \* the invocations in flight, one record per invocation slot
    conv,       \* one call of convertToISODates: its arguments and its result
    dec,        \* one evaluation of the capacity decrement: the cell read, the value written
    clock,      \* Date.now(): the millisecond the platform's clock shows
    meta        \* one booking's fields on their way from create-checkout, through the
                \* session metadata, to the row the webhook writes

vars == <<bookings, events, sessions, deployed, req, conv, dec, clock, meta>>

-----------------------------------------------------------------------------
(* Bounds of the model.                                                    *)

\* The largest initial spots_remaining of an event.
MaxSpots == 2
\* The most data rows the Bookings grid grows to.
MaxBookings == 2
\* The longest capacity cell text the decrement is evaluated on.
MaxCellLen == 3
\* The milliseconds the clock runs through while requests are watched.
MaxMillis == 2

-----------------------------------------------------------------------------
(* JavaScript values.                                                      *)

\* The value of a missing cell, field or array element.
Undefined == <<"undefined">>
\* The empty string.
Empty == <<>>

\* `!x` of a string-or-undefined value.
Falsy(x) == x = Undefined \/ x = Empty

\* A number: NaN, or an integer.
NaN == [nan |-> TRUE, n |-> 0]
Num(n) == [nan |-> FALSE, n |-> n]

Digits == <<"0", "1", "2", "3", "4", "5", "6", "7", "8", "9">>
HexDigits == Digits \o <<"a", "b", "c", "d", "e", "f">>
Whitespace == {" ", "\t", "\n"}

IsDigit(c, radix) == \E i \in 1..radix : HexDigits[i] = c
DigitVal(c) == (CHOOSE i \in 1..16 : HexDigits[i] = c) - 1

\* String(n) of a non-negative integer.
RECURSIVE NatToStr(_)
NatToStr(n) ==
    IF n < 10 THEN <<Digits[n + 1]>>
    ELSE NatToStr(n \div 10) \o <<Digits[(n % 10) + 1]>>

\* The text without its leading white space.
RECURSIVE TrimStart(_)
TrimStart(s) ==
    IF s # <<>> /\ Head(s) \in Whitespace THEN TrimStart(Tail(s)) ELSE s

\* The value of the longest prefix of s made of digits of the radix
\* (acc is the value so far, any is whether a digit was seen).
RECURSIVE ParseDigits(_, _, _, _)
ParseDigits(s, radix, acc, any) ==
    IF s # <<>> /\ IsDigit(Head(s), radix)
    THEN ParseDigits(Tail(s), radix, acc * radix + DigitVal(Head(s)), TRUE)
    ELSE IF any THEN Num(acc) ELSE NaN

\* parseInt(x) with no radix: the text of x, leading white space skipped, an
\* optional sign, an optional 0x, then digits up to the first other character.
ParseInt(x) ==
    LET t    == TrimStart(x)
        neg  == t # <<>> /\ Head(t) = "-"
        u    == IF t # <<>> /\ Head(t) \in {"-", "+"} THEN Tail(t) ELSE t
        hex  == Len(u) >= 2 /\ u[1] = "0" /\ u[2] \in {"x", "X"}
        v    == IF hex THEN ParseDigits(Tail(Tail(u)), 16, 0, FALSE)
                ELSE ParseDigits(u, 10, 0, FALSE)
    IN  IF v.nan THEN NaN ELSE IF neg THEN Num(0 - v.n) ELSE v

\* `v || 0` of a number: NaN and 0 are falsy.
OrZero(v) == IF v.nan THEN 0 ELSE v.n

\* Math.max(0, x) of an integer.
Max0(x) == IF x > 0 THEN x ELSE 0

\* A mutation of NewSpots: the decrement without its floor at zero.
NewSpotsNoFloor(current) == OrZero(ParseInt(current)) - 1

\* The capacity decrement: Math.max(0, (parseInt(current) || 0) - 1).
\* The same expression is at webhook.js:181 and part_001:175 and :395-396,
\* and (on the value already parsed) at create-direct-booking.js:177.
NewSpots(current) == Max0(OrZero(ParseInt(current)) - 1)

\* What the spots_remaining cell holds after the number n is written to it
\* (valueInputOption USER_ENTERED) and read back: the number's text.
WrittenCell(n) == IF n < 0 THEN <<"-">> \o NatToStr(0 - n) ELSE NatToStr(n)

-----------------------------------------------------------------------------
(* Text helpers.                                                           *)

\* s.startsWith(p), on token sequences.
StartsWith(s, p) == Len(s) >= Len(p) /\ SubSeq(s, 1, Len(p)) = p

\* s.split(sep) for a one-character separator: the pieces between separators.
RECURSIVE Split(_, _)
Split(s, sep) ==
    IF \E i \in 1..Len(s) : s[i] = sep
    THEN LET i == CHOOSE k \in 1..Len(s) : s[k] = sep /\ \A j \in 1..(k - 1) : s[j] # sep
         IN  <<SubSeq(s, 1, i - 1)>> \o Split(SubSeq(s, i + 1, Len(s)), sep)
    ELSE <<s>>

\* Array destructuring: the i-th element, undefined past the end.
Nth(arr, i) == IF i <= Len(arr) THEN arr[i] ELSE Undefined

\* s.padStart(2, '0') of a string.
PadStart2(s) ==
    IF Len(s) >= 2 THEN s
    ELSE IF Len(s) = 1 THEN <<"0">> \o s
    ELSE <<"0", "0">>

-----------------------------------------------------------------------------
(* Dates.  An instant is a number of minutes since 1970-01-01T00:00Z: the  *)
(* seconds and milliseconds of every instant convertToISODates builds are  *)
(* zero, so nothing is lost.                                               *)

\* "Assume 2-hour duration": 2 * 60 * 60 * 1000 ms, in minutes.
DurationMinutes == 120
\* The fallback's hour: tomorrow.setHours(10, 0, 0, 0).
FallbackHour == 10

\* The day number of a civil date (the proleptic Gregorian calendar); a day
\* past the month's end runs into the next month, as MakeDay does.
DaysFromCivil(y, m, d) ==
    LET yy  == IF m <= 2 THEN y - 1 ELSE y
        era == yy \div 400
        yoe == yy - era * 400
        mp  == (m + 9) % 12
        doy == (153 * mp + 2) \div 5 + d - 1
        doe == yoe * 365 + yoe \div 4 - yoe \div 100 + doy
    IN  era * 146097 + doe - 719468

\* The civil date of a day number.
CivilFromDays(z) ==
    LET zz  == z + 719468
        era == zz \div 146097
        doe == zz - era * 146097
        yoe == (doe - doe \div 1460 + doe \div 36524 - doe \div 146096) \div 365
        doy == doe - (365 * yoe + yoe \div 4 - yoe \div 100)
        mp  == (5 * doy + 2) \div 153
        m   == IF mp < 10 THEN mp + 3 ELSE mp - 9
    IN  [year  |-> yoe + era * 400 + (IF m <= 2 THEN 1 ELSE 0),
         month |-> m,
         day   |-> doy - (153 * mp + 2) \div 5 + 1]

\* Date.prototype.toISOString of a valid instant: its UTC fields.
ToISOString(t) ==
    LET c == CivilFromDays(t \div 1440)
        r == t % 1440
    IN  [year |-> c.year, month |-> c.month, day |-> c.day,
         hour |-> r \div 60, minute |-> r % 60]

AllDigits(s) == \A i \in 1..Len(s) : IsDigit(s[i], 10)
DecVal(s) == ParseDigits(s, 10, 0, FALSE).n

\* new Date(text) for a text of the form YYYY-MM-DDTHH:mm:00.000Z: the instant,
\* or Invalid Date.  V8 takes a day up to 31 in any month and lets MakeDay
\* carry it over.  A text of another form goes to the engine's legacy parser,
\* which no input of this model reaches with a date: it is Invalid Date here.
DateParse(text) ==
    LET y  == SubSeq(text, 1, 4)
        mo == SubSeq(text, 6, 7)
        d  == SubSeq(text, 9, 10)
        h  == SubSeq(text, 12, 13)
        mi == SubSeq(text, 15, 16)
        shaped ==
            /\ Len(text) = 24
            /\ text[5] = "-" /\ text[8] = "-" /\ text[11] = "T" /\ text[14] = ":"
            /\ SubSeq(text, 17, 24) = <<":", "0", "0", ".", "0", "0", "0", "Z">>
            /\ AllDigits(y) /\ AllDigits(mo) /\ AllDigits(d)
            /\ AllDigits(h) /\ AllDigits(mi)
        inRange ==
            /\ DecVal(mo) \in 1..12
            /\ DecVal(d) \in 1..31
            /\ DecVal(h) \in 0..24
            /\ DecVal(mi) \in 0..59
            /\ (DecVal(h) = 24 => DecVal(mi) = 0)
    IN  IF shaped /\ inRange
        THEN [valid |-> TRUE,
              t |-> DaysFromCivil(DecVal(y), DecVal(mo), DecVal(d)) * 1440
                    + DecVal(h) * 60 + DecVal(mi)]
        ELSE [valid |-> FALSE, t |-> 0]

AM == <<"A", "M">>
PM == <<"P", "M">>
Twelve == <<"1", "2">>

\* The catch branch: tomorrow at 10:00 (the server's zone is UTC) and two hours on.
\* now is the clock's instant.
FallbackDates(now) ==
    LET tomorrow == ((now \div 1440) + 1) * 1440 + FallbackHour * 60
    IN  [startDate |-> ToISOString(tomorrow),
         endDate   |-> ToISOString(tomorrow + DurationMinutes),
         path      |-> "fallback"]

\* "Convert to 24-hour format": a PM hour other than 12 becomes a Number
\* (parseInt(hours) + 12), 12 AM becomes the text '00', anything else stays text.
HoursTo24(hours, period) ==
    IF period = PM /\ hours # Twelve
    THEN [isNum |-> TRUE, s |-> NatToStr(OrZero(ParseInt(hours)) + 12)]
    ELSE IF period = AM /\ hours = Twelve
         THEN [isNum |-> FALSE, s |-> <<"0", "0">>]
         ELSE [isNum |-> FALSE, s |-> hours]

\* convertToISODates(dateStr, timeStr), called when the clock reads now.  The
\* try block throws on a missing argument, on month.padStart of an undefined
\* month, on hours.padStart of a Number, and in toISOString of an Invalid Date;
\* the catch block answers the fallback.  path records the block that answered.
convertToISODates(dateStr, timeStr, now) ==
    IF Falsy(dateStr) \/ Falsy(timeStr) THEN FallbackDates(now)
    ELSE
    LET dparts  == Split(dateStr, "/")
        day     == Nth(dparts, 1)
        month   == Nth(dparts, 2)
        year    == Nth(dparts, 3)
        tparts  == Split(timeStr, " ")
        time    == Nth(tparts, 1)
        period  == Nth(tparts, 2)
        hm      == Split(time, ":")
        hours   == HoursTo24(Nth(hm, 1), period)
        minutes == Nth(hm, 2)
        padThrows == month = Undefined \/ hours.isNum
        text    == year \o <<"-">> \o PadStart2(month) \o <<"-">> \o PadStart2(day)
                   \o <<"T">> \o PadStart2(hours.s) \o <<":">> \o minutes
                   \o <<":", "0", "0", ".", "0", "0", "0", "Z">>
        start   == DateParse(text)
    IN  IF padThrows \/ ~start.valid THEN FallbackDates(now)
        ELSE [startDate |-> ToISOString(start.t),
              endDate   |-> ToISOString(start.t + DurationMinutes),
              path      |-> "parsed"]

\* The texts the conversion is run on.
TwoDigits(n) == <<Digits[(n \div 10) + 1], Digits[(n % 10) + 1]>>
DateText(d, m, y) == TwoDigits(d) \o <<"/">> \o TwoDigits(m) \o <<"/">> \o NatToStr(y)
TimeText(h, mi, period) == NatToStr(h) \o <<":">> \o TwoDigits(mi) \o <<" ">> \o period

ConvDays == {1, 15, 28, 30}
ConvMonths == {1, 6, 12}
ConvYears == {2024, 2025}
ConvHours == 1..12
ConvMinutes == {0, 30}
ConvPeriods == {AM, PM}
\* The clock at the call: late on 2025-01-29, and the last minute of 2025.
ConvClocks == {DaysFromCivil(2025, 1, 29) * 1440 + 1380,
               DaysFromCivil(2025, 12, 31) * 1440 + 1439}

-----------------------------------------------------------------------------
(* The two pure computations, run on inputs of bounded sets.               *)

MetaIdle == [phase |-> "idle"]
ConvIdle == [phase |-> "idle", dateStr |-> Undefined, timeStr |-> Undefined,
             now |-> 0, out |-> Undefined]
DecIdle == [phase |-> "idle", cell |-> Undefined, written |-> Undefined]

\* The capacity cells the decrement is evaluated on: every text of at most
\* MaxCellLen characters of this alphabet, and the missing cell.
CellAlphabet == {"0", "1", "3", "9", "-", " ", "a", "b", "c", "."}
CellTexts == UNION {[1..k -> CellAlphabet] : k \in 0..MaxCellLen} \cup {Undefined}

\* What a cell of the Events sheet may hold besides a date DD/MM/YYYY: nothing,
\* the empty text, a date written with dashes, a date of month 13.
OddDates == {Undefined, Empty,
             <<"2", "0", "2", "5", "-", "0", "1", "-", "3", "0">>,
             DateText(30, 13, 2025)}
\* ... and besides a time H:MM AM: nothing, the empty text, a time of the
\* 24-hour clock, a time with its period in small letters, an hour 25.
OddTimes == {Undefined, Empty,
             <<"1", "0", ":", "0", "0">>,
             <<"2", ":", "3", "0", " ", "p", "m">>,
             TimeText(25, 0, AM)}

ConvArgs ==
    {[phase |-> "args", dateStr |-> DateText(d, m, y), timeStr |-> TimeText(h, mi, p),
      now |-> c, out |-> Undefined] :
        d \in ConvDays, m \in ConvMonths, y \in ConvYears,
        h \in ConvHours, mi \in ConvMinutes, p \in ConvPeriods, c \in ConvClocks}
    \cup
    {[phase |-> "args", dateStr |-> ds, timeStr |-> ts, now |-> c, out |-> Undefined] :
        ds \in OddDates \cup {DateText(30, 1, 2025)},
        ts \in OddTimes \cup {TimeText(10, 0, AM)}, c \in ConvClocks}

NoStore ==
    /\ bookings = <<>>
    /\ events = <<>>
    /\ sessions = <<>>
    /\ deployed = <<>>
    /\ req = <<>>
    /\ clock = 0

InitPure ==
    /\ NoStore
    /\ meta = MetaIdle
    /\ \/ conv \in ConvArgs /\ dec = DecIdle
       \/ conv = ConvIdle /\ dec \in {[phase |-> "args", cell |-> c, written |-> Undefined] :
                                        c \in CellTexts}

\* combineBookingAndEventData's call of convertToISODates.
ConvertDates ==
    /\ conv.phase = "args"
    /\ conv' = [conv EXCEPT !.phase = "done",
                            !.out = convertToISODates(conv.dateStr, conv.timeStr, conv.now)]
    /\ UNCHANGED <<bookings, events, sessions, deployed, req, dec, clock, meta>>

\* The decrement step: the value computed from the cell read, as the cell then holds it.
ApplyDecrement ==
    /\ dec.phase = "args"
    /\ dec' = [dec EXCEPT !.phase = "done", !.written = WrittenCell(NewSpots(dec.cell))]
    /\ UNCHANGED <<bookings, events, sessions, deployed, req, conv, clock, meta>>

NextPure == ConvertDates \/ ApplyDecrement

SpecPure == InitPure /\ [][NextPure]_vars

-----------------------------------------------------------------------------
(* Claims about the pure computations.                                     *)

\* The 24-hour hour of an hour h of the 12-hour clock.
Hour24(h, p) ==
    IF p = AM THEN (IF h = 12 THEN 0 ELSE h) ELSE (IF h = 12 THEN 12 ELSE h + 12)

\* C9: for every date DD/MM/YYYY and time H:MM AM or H:MM PM of the bounded sets,
\* convertToISODates answers from its try block, with the start instant on that
\* date at the 24-hour hour and the given minute, in UTC.
C9_ParsedStart ==
    \A d \in ConvDays, m \in ConvMonths, y \in ConvYears,
       h \in ConvHours, mi \in ConvMinutes, p \in ConvPeriods :
        (conv.phase = "done" /\ conv.dateStr = DateText(d, m, y)
                             /\ conv.timeStr = TimeText(h, mi, p))
        => /\ conv.out.path = "parsed"
           /\ conv.out.startDate = [year |-> y, month |-> m, day |-> d,
                                    hour |-> Hour24(h, p), minute |-> mi]

\* C10: the value written by the decrement is 0, 0, 0 and 2 for the cells 0,
\* 'abc', missing and '3', and is the text of a number that is not negative for
\* every cell.
C10_DecrementFloor ==
    dec.phase = "done" =>
        /\ dec.cell = <<"0">> => dec.written = <<"0">>
        /\ dec.cell = <<"a", "b", "c">> => dec.written = <<"0">>
        /\ dec.cell = Undefined => dec.written = <<"0">>
        /\ dec.cell = <<"3">> => dec.written = <<"2">>
        /\ dec.written # <<>> /\ AllDigits(dec.written)

\* C10's case: the decrement has been applied to the non-numeric cell 'abc'.
C10_Witness ==
    /\ dec.phase = "done"
    /\ dec.cell = <<"a", "b", "c">>
    /\ dec.written = <<"0">>

-----------------------------------------------------------------------------
(* The row store.  A grid is a sequence of rows, row 1 the header; a row   *)
(* maps a column letter to the cell's text.  Only the columns the handlers *)
(* read or that identify a booking are modelled: of Bookings, C event_id,  *)
(* I stripe_payment_id and J status; of Events, A event_id, D date, E time,*)
(* I total_spots and J spots_remaining.  The Sessions sheet of the later   *)
(* create-direct-booking versions plays the part of Events (its column M   *)
(* the part of J).                                                         *)

T(word) == <<word>>

BookingColumns == <<"A", "C", "I", "J">>
BookingHeader == [A |-> T("booking_id"), C |-> T("event_id"),
                  I |-> T("stripe_payment_id"), J |-> T("status")]
EventColumns == <<"A", "D", "E", "I", "J">>
EventHeader == [A |-> T("event_id"), D |-> T("date"), E |-> T("time"),
                I |-> T("total_spots"), J |-> T("spots_remaining")]

\* headers.indexOf(name): the first column of that name, "none" for -1.
IndexOf(columns, header, name) ==
    IF \E i \in 1..Len(columns) : header[columns[i]] = name
    THEN columns[CHOOSE i \in 1..Len(columns) :
                    /\ header[columns[i]] = name
                    /\ \A j \in 1..(i - 1) : header[columns[j]] # name]
    ELSE "none"

\* A mutation of FirstOf: the loop without its break, which ends on the last
\* matching row.
LastOf(hits) == IF hits = {} THEN 0 ELSE CHOOSE i \in hits : \A j \in hits : j <= i

\* The loop `for (let i = 1; i < rows.length; i++) if (<match>) { ...; break; }`:
\* the sheet row number (1-based, the header row 1) of the first data row among
\* hits, 0 when the loop ends without a match.
FirstOf(hits) == IF hits = {} THEN 0 ELSE CHOOSE i \in hits : \A j \in hits : i <= j

\* The data rows whose cell in column col is one of keys.
DataRowsWith(rows, col, keys) == {i \in 2..Len(rows) : rows[i][col] \in keys}

\* rows.find(row => row[col] === key): the header row is searched too.
\* 0 when no row matches.
FindAnyRow(rows, col, key) == FirstOf({i \in 1..Len(rows) : rows[i][col] = key})

-----------------------------------------------------------------------------
(* Identifiers and inputs.                                                 *)

E1 == T("E1")
E2 == T("E2")
\* An event id no row of Events has.
E9 == T("E9")
\* The event ids a client may send: E2's row is the one no request is about.
EventInputs == {E1, E9}

CsTest == T("cs_test_")
CsLive == T("cs_live_")
\* The checkout sessions the payment provider hands out, and their payment intents.
SessionIds == {CsTest \o T("1")}
PaymentIntentOf(s) == T("pi_") \o Tail(s)
\* session.payment_intent of a session that has none (null).
Null == T("null")

\* What a client may send as sessionId / session_id: nothing, a checkout
\* session id, or a payment intent id.
SessionInputs == {Undefined} \cup SessionIds \cup {PaymentIntentOf(s) : s \in SessionIds}

DirectMarker == T("DIRECT_BOOKING")

\* `BK${Date.now()}`: the booking id of the direct, checkout and WSave handlers.
BookingId(ms) == T("BK") \o NatToStr(ms)

\* session.id.substring(0, 8).toUpperCase(): the booking id of WSheets, the
\* first eight characters of the session id in capitals.
SessionBookingId(id) ==
    IF StartsWith(id, CsTest) THEN T("CS_TEST_")
    ELSE IF StartsWith(id, CsLive) THEN T("CS_LIVE_")
    ELSE id

\* The invocations that can be in flight together.
Slots == {"a", "b"}

Variants == [webhook  |-> {"WSave", "WStatus", "WBoth", "WSpots", "WSheets"},
             checkout |-> {"CSheets", "CPlain"},
             direct   |-> {"DThrow", "DCatch"},
             details  |-> {"BFake", "B404"}]
IdleReq == [kind |-> "none", variant |-> "none", pc |-> "idle", method |-> "none",
            sessionId |-> Undefined, type |-> "none", signature |-> "none",
            eventId |-> Undefined, fieldsOk |-> FALSE, bookingId |-> Undefined,
            key |-> Undefined, rowIdx |-> 0, spotsRead |-> Undefined,
            snapB |-> <<>>, snapE |-> <<>>,
            log |-> <<>>, sent |-> 0, status |-> 0, body |-> [kind |-> "none"]]

\* The external calls an invocation has made, in order, each with its outcome.
Logged(q, call, ok) == Append(q.log, [call |-> call, ok |-> ok])
Did(q, call) == \E i \in 1..Len(q.log) : q.log[i].call = call /\ q.log[i].ok

\* res.status(code).json(body) (or .end()) as the handler's last statement, or
\* under return: one more response is sent and the invocation is over.
Respond(q, code, body) ==
    [q EXCEPT !.pc = "done", !.status = code, !.body = body, !.sent = q.sent + 1]
Error(text) == [kind |-> "error", error |-> text]

\* Room in the Bookings grid for one more data row: the store rejects an
\* append to a full grid.
RoomToAppend == Len(bookings) - 1 < MaxBookings

InitSpotCells == {Undefined, <<"a", "b", "c">>} \cup {NatToStr(n) : n \in 0..MaxSpots}

EventRow(id, date, time, total, spots) ==
    [A |-> id, D |-> date, E |-> time, I |-> total, J |-> spots]

\* The store before any booking, no request in flight, and the deployment:
\* of every endpoint one of its versions.
InitWith(deployments) ==
    /\ bookings = <<BookingHeader>>
    /\ \E c \in InitSpotCells :
        events = <<EventHeader,
                   EventRow(E1, DateText(30, 1, 2025), TimeText(10, 0, AM),
                            NatToStr(MaxSpots), c),
                   EventRow(E2, DateText(15, 6, 2025), TimeText(2, 30, PM),
                            <<"1">>, <<"1">>)>>
    /\ sessions = [s \in SessionIds |-> [exists |-> FALSE, eventId |-> Undefined,
                                          payment_intent |-> Null]]
    /\ deployed \in deployments
    /\ req = [r \in Slots |-> IdleReq]
    /\ conv = ConvIdle
    /\ dec = DecIdle
    /\ clock = 0
    /\ meta = MetaIdle

Init == InitWith([webhook : Variants.webhook, checkout : Variants.checkout,
                  direct : Variants.direct, details : Variants.details])

\* An invocation of the endpoint kind arrives at an idle slot and is run by
\* the version deployed for that endpoint.
Arrives(r, kind, v) ==
    /\ req[r].pc = "idle"
    /\ deployed[kind] = v
    /\ UNCHANGED deployed

\* The platform forgets a finished invocation.
Finish(r) ==
    /\ req[r].pc = "done"
    /\ req' = [req EXCEPT ![r] = IdleReq]
    /\ UNCHANGED <<bookings, events, sessions, deployed, conv, dec, clock, meta>>

-----------------------------------------------------------------------------
(* The payment provider.                                                   *)

\* The customer pays on the provider's hosted page: the session gets its
\* payment intent (a session created under an older API version has one from
\* the start).
CustomerPays(s) ==
    /\ sessions[s].exists
    /\ sessions[s].payment_intent = Null
    /\ sessions' = [sessions EXCEPT ![s].payment_intent = PaymentIntentOf(s)]
    /\ UNCHANGED <<bookings, events, deployed, req, conv, dec, clock, meta>>

\* stripe.checkout.sessions.retrieve(id) succeeds only for a session that exists.
Retrievable(id) == id \in SessionIds /\ sessions[id].exists

-----------------------------------------------------------------------------
(* The webhook handlers.                                                   *)
(*   WSave   webhook.js:2-208     append the booking row, then cut spots   *)
(*   WStatus webhook.js:211-345   set status by payment intent id          *)
(*   WBoth   part_000             set status by session id or intent id    *)
(*   WSpots  part_001:2-190       find the booking, cut the event's spots  *)
(*   WSheets part_001:193-421     append the row and cut spots, errors     *)
(*                                swallowed                                *)

IsCheckoutSessionId(id) == StartsWith(id, CsTest) \/ StartsWith(id, CsLive)

\* The identifiers updateBookingStatus and updateBookingAndSpots compare the
\* stripe_payment_id cell with.
LookupKeys(q) ==
    IF q.variant = "WStatus" THEN {q.key} ELSE {q.sessionId, q.key}

\* A mutation of WebhookEntry: the session id is never resolved.
WebhookEntryUnresolved(q) ==
    IF q.method = "OPTIONS" THEN Respond(q, 200, [kind |-> "none"])
    ELSE IF q.method # "POST" THEN Respond(q, 405, Error("Method not allowed"))
    ELSE IF Falsy(q.sessionId) THEN Respond(q, 400, Error("Session ID required"))
    ELSE IF q.variant = "WSave" /\ ~IsCheckoutSessionId(q.sessionId)
         THEN Respond(q, 500, Error("Failed to process webhook"))
    ELSE [q EXCEPT !.pc = IF q.variant = "WSave" THEN "events.get" ELSE "bookings.get",
                   !.key = q.sessionId]

\* module.exports / handler of the first four variants, up to the first await:
\* the method and sessionId checks, then either the provider call (a checkout
\* session id) or, with paymentIntentId = sessionId, the first row-store read.
\* In WSave the next statement reads checkoutSession.metadata of the null
\* checkoutSession: a TypeError, caught by the handler's catch.
WebhookEntry(q) ==
    IF q.method = "OPTIONS" THEN Respond(q, 200, [kind |-> "none"])
    ELSE IF q.method # "POST" THEN Respond(q, 405, Error("Method not allowed"))
    ELSE IF Falsy(q.sessionId) THEN Respond(q, 400, Error("Session ID required"))
    ELSE IF IsCheckoutSessionId(q.sessionId) THEN [q EXCEPT !.pc = "retrieve"]
    ELSE IF q.variant = "WSave" THEN Respond(q, 500, Error("Failed to process webhook"))
    ELSE [q EXCEPT !.pc = "bookings.get", !.key = q.sessionId]

\* handler of WSheets up to its first await.  A request with a stripe-signature
\* header is verified (constructEvent); a verified checkout.session.completed
\* event carries the session itself.  A request of the success page is acted on
\* only when its type is 'booking.confirmed'.
SheetsEntry(q) ==
    IF q.method # "POST" THEN Respond(q, 405, Error("Method not allowed"))
    ELSE IF q.signature = "invalid" THEN Respond(q, 400, Error("Webhook Error"))
    ELSE IF q.signature = "valid" THEN
        IF q.type = "checkout.session.completed"
        THEN [q EXCEPT !.pc = "token",
                       !.key = sessions[q.sessionId].payment_intent,
                       !.eventId = sessions[q.sessionId].eventId]
        ELSE Respond(q, 200, [kind |-> "received"])
    ELSE IF q.type = "booking.confirmed" THEN [q EXCEPT !.pc = "retrieve"]
    ELSE Respond(q, 200, [kind |-> "received"])

\* What a webhook request may carry.  A signed event that verifies comes from
\* the provider: it is about a session that exists and has been paid.
WebhookRequests(v) ==
    IF v = "WSheets"
    THEN {[IdleReq EXCEPT !.method = m, !.sessionId = id, !.type = t, !.signature = sg] :
            m \in {"POST", "GET"}, id \in SessionInputs,
            t \in {"booking.confirmed", "checkout.session.completed", "other"},
            sg \in {"none", "valid", "invalid"}}
    ELSE {[IdleReq EXCEPT !.method = m, !.sessionId = id, !.type = "booking.confirmed"] :
            m \in {"POST", "OPTIONS", "GET"}, id \in SessionInputs}

GenuineEvent(q) ==
    q.signature = "valid" =>
        /\ q.type # "booking.confirmed"
        /\ Retrievable(q.sessionId)
        /\ sessions[q.sessionId].payment_intent # Null

webhook(r) ==
    \E v \in Variants.webhook : \E q0 \in WebhookRequests(v) :
        /\ Arrives(r, "webhook", v)
        /\ GenuineEvent(q0)
        /\ LET q == [q0 EXCEPT !.kind = "webhook", !.variant = v, !.pc = "entry"]
           IN  req' = [req EXCEPT ![r] = IF v = "WSheets" THEN SheetsEntry(q)
                                                             ELSE WebhookEntry(q)]
        /\ UNCHANGED <<bookings, events, sessions, conv, dec, clock, meta>>

\* A mutation of RetrieveFailed: the rejection is passed over and the handler
\* goes on with the identifier it was given.
RetrieveFailedPassedOver(q) == [q EXCEPT !.pc = "bookings.get", !.key = q.sessionId]

\* A mutation of RetrieveFailed: the inner catch answers 500 without return,
\* and the handler goes on to its row-store calls.
RetrieveFailedNoReturn(q) ==
    [Respond(q, 500, Error("Failed to retrieve session from Stripe")) EXCEPT
        !.pc = CASE q.variant = "WSave" -> "events.get"
                 [] q.variant = "WSheets" -> "token"
                 [] OTHER -> "bookings.get",
        !.key = q.sessionId]

\* The provider call was rejected: the inner catch answers 500 (in WSheets the
\* handler's only catch does).
RetrieveFailed(q) ==
    IF q.variant = "WSheets"
    THEN Respond(q, 500, Error("Webhook processing failed"))
    ELSE Respond(q, 500, Error("Failed to retrieve session from Stripe"))

\* stripe.checkout.sessions.retrieve has answered.  A rejection, and in WSave
\* the TypeError of payment_intent.id on a session without a payment intent,
\* end in the inner catch (WSheets has only the outer one).
retrieveSession(r) ==
    LET q == req[r] IN
    /\ q.kind = "webhook" /\ q.pc = "retrieve"
    /\ \E ok \in {TRUE, FALSE} :
        /\ ok => Retrievable(q.sessionId)
        /\ LET s  == sessions[q.sessionId]
               q1 == [q EXCEPT !.log = Logged(q, "retrieve", ok)]
           IN  req' = [req EXCEPT ![r] =
                 IF ~ok THEN RetrieveFailed(q1)
                 ELSE IF q.variant = "WSave" THEN
                    IF s.payment_intent = Null
                    THEN Respond(q1, 500, Error("Failed to retrieve session from Stripe"))
                    ELSE [q1 EXCEPT !.pc = "events.get", !.key = s.payment_intent,
                                    !.eventId = s.eventId]
                 ELSE IF q.variant = "WSheets" THEN
                    [q1 EXCEPT !.pc = "token", !.key = s.payment_intent,
                               !.eventId = s.eventId]
                 ELSE [q1 EXCEPT !.pc = "bookings.get", !.key = s.payment_intent]]
    /\ UNCHANGED <<bookings, events, sessions, deployed, conv, dec, clock, meta>>

\* A failure thrown inside the try of one of the first four webhook variants.
WebhookFailed(q) == Respond(q, 500, Error("Failed to process webhook"))

\* The success answer of the first four webhook variants.
WebhookSuccess(q) ==
    Respond(q, 200, [kind |-> "success", sessionId |-> q.sessionId,
                     paymentIntentId |-> q.key, eventId |-> q.eventId])

\* updateBookingStatus / updateBookingAndSpots after the Bookings read: the
\* columns by header name, then the first data row whose stripe_payment_id is
\* one of the identifiers looked for.
FindBooking(q, rows) ==
    LET idCol == IndexOf(BookingColumns, rows[1], T("stripe_payment_id"))
        stCol == IndexOf(BookingColumns, rows[1], T("status"))
        evCol == IndexOf(BookingColumns, rows[1], T("event_id"))
    IN  IF idCol = "none" \/ stCol = "none" \/ (q.variant = "WSpots" /\ evCol = "none")
        THEN WebhookFailed(q)
        ELSE LET i == FirstOf(DataRowsWith(rows, idCol, LookupKeys(q)))
             IN  IF i = 0 THEN WebhookFailed(q)
                 ELSE IF q.variant = "WSpots"
                      THEN [q EXCEPT !.pc = "events.get", !.rowIdx = i,
                                     !.eventId = rows[i][evCol]]
                      ELSE [q EXCEPT !.pc = "bookings.update", !.rowIdx = i]

\* sheets.spreadsheets.values.get of Bookings has answered (WStatus, WBoth, WSpots).
getBookings(r) ==
    LET q == req[r] IN
    /\ q.kind = "webhook" /\ q.pc = "bookings.get"
    /\ \E ok \in {TRUE, FALSE} :
        LET q1 == [q EXCEPT !.log = Logged(q, "bookings.get", ok)]
        IN  req' = [req EXCEPT ![r] = IF ok THEN FindBooking(q1, bookings)
                                            ELSE WebhookFailed(q1)]
    /\ UNCHANGED <<bookings, events, sessions, deployed, conv, dec, clock, meta>>

Completed == T("completed")

\* The status update of updateBookingStatus has answered (WStatus, WBoth): the
\* cell in column J of the row found, whatever the header of that column.
updateBookingStatus(r) ==
    LET q == req[r] IN
    /\ q.kind = "webhook" /\ q.pc = "bookings.update"
    /\ \E ok \in {TRUE, FALSE} :
        LET q1 == [q EXCEPT !.log = Logged(q, "bookings.update", ok)]
        IN  /\ bookings' = IF ok THEN [bookings EXCEPT ![q.rowIdx].J = Completed]
                                 ELSE bookings
            /\ req' = [req EXCEPT ![r] = IF ok THEN WebhookSuccess(q1)
                                               ELSE WebhookFailed(q1)]
    /\ UNCHANGED <<events, sessions, deployed, conv, dec, clock, meta>>

\* The catch of the direct-booking handlers: 500 with the error's message.
DirectFailed(q, message) ==
    Respond(q, 500, [kind |-> "error", error |-> "Unable to process booking",
                     details |-> message])

\* The capacity error's message: create-direct-booking.js:133 (and the Sessions
\* version booking-details.js:385, 647, which says "session").
NoSpotsMessage(v) ==
    IF v = "DThrow" THEN "No spots remaining for this event"
                    ELSE "No spots remaining for this session"

\* A mutation of NoSpotsLeft: only a negative count is refused.
NoSpotsLeftNegative(cell) == OrZero(ParseInt(cell)) < 0

\* The capacity check of the direct-booking handlers:
\* spotsRemaining = parseInt(cell) || 0; if (spotsRemaining <= 0) throw.
NoSpotsLeft(cell) == OrZero(ParseInt(cell)) <= 0

\* A mutation of FindEvent: the webhook that saves the booking cuts the spots
\* first and appends the row afterwards.
FindEventSpotsFirst(q, rows) ==
    LET i == FirstOf(DataRowsWith(rows, "A", {q.eventId}))
        found == [q EXCEPT !.rowIdx = i, !.spotsRead = rows[i].J]
    IN  CASE q.variant = "WSave" ->
               IF i = 0 THEN WebhookFailed(q)
               ELSE [found EXCEPT !.pc = "events.update",
                                  !.bookingId = BookingId(clock)]
          [] q.variant = "WSpots" ->
               IF i = 0 THEN WebhookFailed(q)
               ELSE [found EXCEPT !.pc = "events.update"]
          [] q.variant = "WSheets" ->
               IF i = 0 THEN Respond(q, 200, [kind |-> "received"])
               ELSE [found EXCEPT !.pc = "events.update"]
          [] OTHER ->
               IF i = 0 THEN DirectFailed(q, "Event not found")
               ELSE IF NoSpotsLeft(found.spotsRead)
                    THEN DirectFailed(found, NoSpotsMessage(q.variant))
                    ELSE [found EXCEPT !.pc = "bookings.append"]

\* A mutation of FindEvent: the webhook that saves the booking makes the
\* capacity check of the direct-booking handlers too.
FindEventGuarded(q, rows) ==
    LET i == FirstOf(DataRowsWith(rows, "A", {q.eventId}))
        found == [q EXCEPT !.rowIdx = i, !.spotsRead = rows[i].J]
    IN  CASE q.variant = "WSave" ->
               IF i = 0 THEN WebhookFailed(q)
               ELSE IF NoSpotsLeft(found.spotsRead) THEN WebhookFailed(found)
               ELSE [found EXCEPT !.pc = "bookings.append",
                                  !.bookingId = BookingId(clock)]
          [] q.variant = "WSpots" ->
               IF i = 0 THEN WebhookFailed(q)
               ELSE [found EXCEPT !.pc = "events.update"]
          [] q.variant = "WSheets" ->
               IF i = 0 THEN Respond(q, 200, [kind |-> "received"])
               ELSE [found EXCEPT !.pc = "events.update"]
          [] OTHER ->
               IF i = 0 THEN DirectFailed(q, "Event not found")
               ELSE IF NoSpotsLeft(found.spotsRead)
                    THEN DirectFailed(found, NoSpotsMessage(q.variant))
                    ELSE [found EXCEPT !.pc = "bookings.append"]

\* What follows the Events read in each handler that cuts the spots: the event's
\* row by column A; the spots cell read is kept for the later write.
\*   WSave   webhook.js:109-134           no row: throw
\*   WSpots  part_001:154-175             no row: throw
\*   WSheets part_001:377-396             no row: return
\*   direct  create-direct-booking.js:99-134  no row: throw; no spots left: throw
FindEvent(q, rows) ==
    LET i == FirstOf(DataRowsWith(rows, "A", {q.eventId}))
        found == [q EXCEPT !.rowIdx = i, !.spotsRead = rows[i].J]
    IN  CASE q.variant = "WSave" ->
               IF i = 0 THEN WebhookFailed(q)
               ELSE [found EXCEPT !.pc = "bookings.append",
                                  !.bookingId = BookingId(clock)]
          [] q.variant = "WSpots" ->
               IF i = 0 THEN WebhookFailed(q)
               ELSE [found EXCEPT !.pc = "events.update"]
          [] q.variant = "WSheets" ->
               IF i = 0 THEN Respond(q, 200, [kind |-> "received"])
               ELSE [found EXCEPT !.pc = "events.update"]
          [] OTHER ->
               IF i = 0 THEN DirectFailed(q, "Event not found")
               ELSE IF NoSpotsLeft(found.spotsRead)
                    THEN DirectFailed(found, NoSpotsMessage(q.variant))
                    ELSE [found EXCEPT !.pc = "bookings.append"]

\* A rejected Events read: thrown to the handler's catch, except in
\* updateSpotsRemaining (WSheets), which logs it and returns.
EventsReadFailed(q) ==
    CASE q.variant = "WSheets" -> Respond(q, 200, [kind |-> "received"])
      [] q.kind = "direct" -> DirectFailed(q, "request failed")
      [] OTHER -> WebhookFailed(q)

\* The read of Events has answered.
getEvents(r) ==
    LET q == req[r] IN
    /\ q.kind \in {"webhook", "direct"} /\ q.pc = "events.get"
    /\ \E ok \in {TRUE, FALSE} :
        LET q1 == [q EXCEPT !.log = Logged(q, "events.get", ok)]
        IN  req' = [req EXCEPT ![r] = IF ok THEN FindEvent(q1, events)
                                            ELSE EventsReadFailed(q1)]
    /\ UNCHANGED <<bookings, events, sessions, deployed, conv, dec, clock, meta>>

\* The OAuth token exchange of getAccessToken (WSheets) has answered.  Its
\* failure is rethrown and ends in the catch of updateGoogleSheets, which logs
\* it: nothing is written and the handler answers as usual.
getAccessToken(r) ==
    LET q == req[r] IN
    /\ q.kind = "webhook" /\ q.pc = "token"
    /\ \E ok \in {TRUE, FALSE} :
        LET q1 == [q EXCEPT !.log = Logged(q, "token", ok)]
        IN  req' = [req EXCEPT ![r] = IF ok THEN [q1 EXCEPT !.pc = "bookings.append"]
                                            ELSE Respond(q1, 200, [kind |-> "received"])]
    /\ UNCHANGED <<bookings, events, sessions, deployed, conv, dec, clock, meta>>

Confirmed == T("Confirmed")
Pending == T("pending")

\* A value as the cell it becomes: null and undefined leave the cell empty.
CellOf(v) == IF v \in {Null, Undefined} THEN Empty ELSE v

\* The booking row each handler appends (columns A, C, I and J of it).
\*   WSave   webhook.js:143-160        I the payment intent id, J 'Confirmed'
\*   WSheets part_001:321-332          I session.payment_intent, J 'Confirmed'
\*   CSheets create-checkout.js:159-174  I paymentIntentId || sessionId, J 'pending'
\*   direct  create-direct-booking.js:140-158  I 'DIRECT_BOOKING', J 'Confirmed'
bookingRow(q) ==
    CASE q.variant = "CSheets" ->
           [A |-> q.bookingId, C |-> CellOf(q.eventId),
            I |-> IF Falsy(q.key) \/ q.key = Null THEN q.sessionId ELSE q.key,
            J |-> Pending]
      [] q.kind = "direct" ->
           [A |-> q.bookingId, C |-> CellOf(q.eventId), I |-> DirectMarker,
            J |-> Confirmed]
      [] q.variant = "WSheets" ->
           [A |-> SessionBookingId(q.sessionId), C |-> CellOf(q.eventId),
            I |-> CellOf(q.key), J |-> Confirmed]
      [] OTHER ->
           [A |-> q.bookingId, C |-> CellOf(q.eventId), I |-> CellOf(q.key),
            J |-> Confirmed]

\* What a handler does when its append is rejected: thrown to the handler's
\* catch (WSave, direct), or logged and passed over (WSheets, CSheets).
AppendFailed(q) ==
    CASE q.variant = "WSave" -> WebhookFailed(q)
      [] q.variant = "WSheets" -> Respond(q, 200, [kind |-> "received"])
      [] q.variant = "CSheets" -> Respond(q, 200, [kind |-> "url"])
      [] OTHER -> DirectFailed(q, "request failed")

\* What follows the append: the spots write, with WSheets first reading Events;
\* CSheets answers with the checkout URL.
AfterAppend(q) ==
    CASE q.variant = "WSheets" -> [q EXCEPT !.pc = "events.get"]
      [] q.variant = "CSheets" -> Respond(q, 200, [kind |-> "url"])
      [] OTHER -> [q EXCEPT !.pc = "events.update"]

\* sheets.spreadsheets.values.append on Bookings has answered.
appendBooking(r) ==
    LET q == req[r] IN
    /\ q.pc = "bookings.append"
    /\ \E ok \in {TRUE, FALSE} :
        LET q1 == [q EXCEPT !.log = Logged(q, "bookings.append", ok)]
        IN  /\ ok => RoomToAppend
            /\ bookings' = IF ok THEN Append(bookings, bookingRow(q)) ELSE bookings
            /\ req' = [req EXCEPT ![r] = IF ok THEN AfterAppend(q1) ELSE AppendFailed(q1)]
    /\ UNCHANGED <<events, sessions, deployed, conv, dec, clock, meta>>

\* The success answer of the direct-booking handlers.
DirectSuccess(q) == Respond(q, 200, [kind |-> "success", eventId |-> q.eventId])

\* What a handler does when the spots write is rejected.
\*   WSave   webhook.js:193-200, 74-80     not caught in the function: 500
\*   WSpots  part_001:180-187, 56-62       not caught in the function: 500
\*   WSheets part_001:412-416              logged
\*   DThrow  create-direct-booking.js:179-186, 64-70  not caught: 500
\*   DCatch  booking-details.js:701-716    caught, "booking is already saved"
UpdateFailed(q) ==
    CASE q.variant = "WSheets" -> Respond(q, 200, [kind |-> "received"])
      [] q.variant = "DCatch" -> DirectSuccess(q)
      [] q.variant = "DThrow" -> DirectFailed(q, "request failed")
      [] OTHER -> WebhookFailed(q)

\* The answer after the spots write has gone through.
UpdateDone(q) ==
    CASE q.variant = "WSheets" -> Respond(q, 200, [kind |-> "received"])
      [] q.kind = "direct" -> DirectSuccess(q)
      [] OTHER -> WebhookSuccess(q)

\* A mutation of SpotsToWrite: the decrement reads the cell as it is at the
\* moment of the write.
SpotsToWriteFresh(q, rows) == WrittenCell(NewSpots(rows[q.rowIdx].J))

\* The value the spots write carries: computed from the cell the handler read
\* earlier, whatever the cell holds by now.
SpotsToWrite(q, rows) == WrittenCell(NewSpots(q.spotsRead))

\* A mutation of WriteSpots: the range names column I, the total_spots cell.
WriteSpotsColumnI(rows, rowIdx, value) == [rows EXCEPT ![rowIdx].I = value]

\* sheets.spreadsheets.values.update of the range `Events!J${eventRowIndex}`
\* with values [[newSpots]]: the one cell in column J of that row.
WriteSpots(rows, rowIdx, value) == [rows EXCEPT ![rowIdx].J = value]

\* The write of the spots cell (Events!J<row>) has answered.
updateSpots(r) ==
    LET q == req[r] IN
    /\ q.pc = "events.update"
    /\ \E ok \in {TRUE, FALSE} :
        LET q1 == [q EXCEPT !.log = Logged(q, "events.update", ok)]
        IN  /\ events' = IF ok THEN WriteSpots(events, q.rowIdx, SpotsToWrite(q, events))
                               ELSE events
            /\ req' = [req EXCEPT ![r] = IF ok THEN UpdateDone(q1) ELSE UpdateFailed(q1)]
    /\ UNCHANGED <<bookings, sessions, deployed, conv, dec, clock, meta>>

-----------------------------------------------------------------------------
(* The direct-booking handlers.                                            *)
(*   DThrow  create-direct-booking.js (and booking-details.js:247-448, the *)
(*           same steps on the Sessions sheet)                             *)
(*   DCatch  booking-details.js:451-729                                    *)

\* module.exports up to the first await: the method and required-field checks.
DirectEntry(q) ==
    IF q.method # "POST" THEN Respond(q, 405, Error("Method not allowed"))
    ELSE IF Falsy(q.eventId) \/ ~q.fieldsOk
         THEN Respond(q, 400, Error("Missing required fields"))
    ELSE [q EXCEPT !.pc = "events.get", !.key = DirectMarker,
                   !.bookingId = BookingId(clock)]

createDirectBooking(r) ==
    \E v \in Variants.direct, m \in {"POST", "GET"},
       e \in EventInputs \cup {Undefined}, f \in {TRUE, FALSE} :
        /\ Arrives(r, "direct", v)
        /\ LET q == [IdleReq EXCEPT !.kind = "direct", !.variant = v, !.pc = "entry",
                                    !.method = m, !.eventId = e, !.fieldsOk = f]
           IN  req' = [req EXCEPT ![r] = DirectEntry(q)]
        /\ UNCHANGED <<bookings, events, sessions, conv, dec, clock, meta>>

-----------------------------------------------------------------------------
(* The checkout handlers.                                                  *)
(*   CSheets create-checkout.js   create the session, append a pending row *)
(*   CPlain  part_002             create the session only                  *)

\* The handler up to stripe.checkout.sessions.create.
CheckoutEntry(q) ==
    IF q.method # "POST" THEN Respond(q, 405, Error("Method not allowed"))
    ELSE IF q.variant = "CSheets" /\ ~q.fieldsOk
         THEN Respond(q, 400, Error("Skill level is required"))
    ELSE [q EXCEPT !.pc = "create"]

createCheckout(r) ==
    \E v \in Variants.checkout, m \in {"POST", "GET"},
       e \in EventInputs, f \in {TRUE, FALSE} :
        /\ Arrives(r, "checkout", v)
        /\ LET q == [IdleReq EXCEPT !.kind = "checkout", !.variant = v, !.pc = "entry",
                                    !.method = m, !.eventId = e, !.fieldsOk = f]
           IN  req' = [req EXCEPT ![r] = CheckoutEntry(q)]
        /\ UNCHANGED <<bookings, events, sessions, conv, dec, clock, meta>>

\* The failure answer of the checkout handlers.
CheckoutFailed(q) ==
    Respond(q, 500, Error(IF q.variant = "CSheets" THEN "Unable to create booking session"
                                                   ELSE "Unable to create payment session"))

\* stripe.checkout.sessions.create has answered.  The provider hands out a
\* session id not used before, carrying the metadata; whether the session has
\* a payment intent from the start depends on the provider's API version.
createSession(r) ==
    LET q == req[r] IN
    /\ q.kind = "checkout" /\ q.pc = "create"
    /\ \/ /\ req' = [req EXCEPT ![r] =
                       CheckoutFailed([q EXCEPT !.log = Logged(q, "create", FALSE)])]
          /\ UNCHANGED sessions
       \/ \E s \in SessionIds : \E pi \in {Null, PaymentIntentOf(s)} :
            /\ ~sessions[s].exists
            /\ sessions' = [sessions EXCEPT ![s] = [exists |-> TRUE, eventId |-> q.eventId,
                                                    payment_intent |-> pi]]
            /\ LET q1 == [q EXCEPT !.log = Logged(q, "create", TRUE),
                                   !.sessionId = s, !.key = pi]
               IN  req' = [req EXCEPT ![r] =
                             IF q.variant = "CSheets"
                             THEN [q1 EXCEPT !.pc = "bookings.append",
                                             !.bookingId = BookingId(clock)]
                             ELSE Respond(q1, 200, [kind |-> "url"])]
    /\ UNCHANGED <<bookings, events, deployed, conv, dec, clock, meta>>

-----------------------------------------------------------------------------
(* The booking-details handlers.                                           *)
(*   BFake  booking-details.js:4-244   no booking row: 200 with test data  *)
(*   B404   part_003 (both handlers)   no booking row: 404; they read the  *)
(*          bookings tab under its older name Sheet1                       *)

\* The handler up to Promise.all of the two reads.
DetailsEntry(q) ==
    IF q.method = "OPTIONS" THEN Respond(q, 200, [kind |-> "none"])
    ELSE IF q.method # "GET" THEN Respond(q, 405, Error("Method Not Allowed"))
    ELSE IF Falsy(q.sessionId) THEN Respond(q, 400, Error("session_id is required"))
    ELSE [q EXCEPT !.pc = "reads"]

\* What a client may send as session_id: as for the webhook, or the text of
\* the header cell.
DetailsInputs == SessionInputs \cup {T("stripe_payment_id")}

bookingDetails(r) ==
    \E v \in Variants.details, m \in {"GET", "OPTIONS", "POST"}, id \in DetailsInputs :
        /\ Arrives(r, "details", v)
        /\ req' = [req EXCEPT ![r] =
                     DetailsEntry([IdleReq EXCEPT !.kind = "details", !.variant = v,
                                                  !.pc = "entry", !.method = m,
                                                  !.sessionId = id])]
        /\ UNCHANGED <<bookings, events, sessions, conv, dec, clock, meta>>

\* combineBookingAndEventData: the fields of the two rows by header name (null
\* for a header that is missing), the dates converted.
combineBookingAndEventData(bookingHeaders, bRow, eventHeaders, eRow, now) ==
    LET getBookingValue(name) ==
            LET c == IndexOf(BookingColumns, bookingHeaders, T(name))
            IN  IF c = "none" THEN Null ELSE bRow[c]
        getEventValue(name) ==
            LET c == IndexOf(EventColumns, eventHeaders, T(name))
            IN  IF c = "none" THEN Null ELSE eRow[c]
        dates == convertToISODates(getEventValue("date"), getEventValue("time"), now)
    IN  [kind |-> "details",
         start_date |-> dates.startDate,
         end_date |-> dates.endDate,
         event_id |-> getBookingValue("event_id"),
         stripe_payment_id |-> getBookingValue("stripe_payment_id"),
         status |-> getBookingValue("status"),
         total_spots |-> getEventValue("total_spots"),
         spots_remaining |-> getEventValue("spots_remaining")]

\* A mutation of EventNotFound: test data is answered, as booking-details.js
\* does for a booking that is not found.
EventNotFoundTestData(q) == Respond(q, 200, [kind |-> "test data"])

\* The answer when no event row has the booking's event_id.
EventNotFound(q) == Respond(q, 404, Error("Event details not found for this event_id"))

\* The handler after both reads: the booking row by stripe_payment_id ===
\* session_id, the event row by the booking's event_id, the merged answer.
DetailsAnswer(q, bookingRows, eventRows, now) ==
    LET idCol == IndexOf(BookingColumns, bookingRows[1], T("stripe_payment_id"))
        evCol == IndexOf(BookingColumns, bookingRows[1], T("event_id"))
        evHdr == IndexOf(EventColumns, eventRows[1], T("event_id"))
        b     == FindAnyRow(bookingRows, idCol, q.sessionId)
        e     == FindAnyRow(eventRows, evHdr, bookingRows[b][evCol])
    IN  IF idCol = "none" THEN Respond(q, 500, Error("stripe_payment_id column not found"))
        ELSE IF b = 0 THEN
            IF q.variant = "BFake" THEN Respond(q, 200, [kind |-> "test data"])
            ELSE Respond(q, 404, Error("Booking not found for this session_id"))
        ELSE IF evCol = "none" THEN Respond(q, 500, Error("event_id column not found"))
        ELSE IF evHdr = "none" THEN Respond(q, 500, Error("event_id column not found"))
        ELSE IF e = 0 THEN EventNotFound(q)
        ELSE Respond(q, 200, combineBookingAndEventData(bookingRows[1], bookingRows[b],
                                                        eventRows[1], eventRows[e], now))

\* A mutation of AfterRead: the call clears the data rows of the grid.
AfterReadCleared(rows) == <<rows[1]>>

\* sheets.spreadsheets.values.get, the only row-store call of the
\* booking-details handlers: the grid after the call is the grid before it.
AfterRead(rows) == rows

\* One of the two reads of Promise.all has answered.  The first rejection
\* settles the whole: 500.  When the second grid is in, the handler runs to
\* its answer.
readForDetails(r) ==
    LET q == req[r] IN
    /\ q.kind = "details" /\ q.pc = "reads"
    /\ \E sheet \in {"bookings", "events"}, ok \in {TRUE, FALSE}, now \in ConvClocks :
        /\ sheet = "bookings" => q.snapB = <<>>
        /\ sheet = "events" => q.snapE = <<>>
        /\ LET q1 == [q EXCEPT !.log = Logged(q, sheet \o ".get", ok),
                               !.snapB = IF sheet = "bookings" THEN bookings ELSE q.snapB,
                               !.snapE = IF sheet = "events" THEN events ELSE q.snapE]
           IN  req' = [req EXCEPT ![r] =
                 IF ~ok THEN Respond(q1, 500, Error("Internal server error"))
                 ELSE IF q1.snapB = <<>> \/ q1.snapE = <<>> THEN q1
                 ELSE DetailsAnswer(q1, q1.snapB, q1.snapE, now)]
        /\ bookings' = IF sheet = "bookings" THEN AfterRead(bookings) ELSE bookings
        /\ events' = IF sheet = "events" THEN AfterRead(events) ELSE events
    /\ UNCHANGED <<sessions, deployed, conv, dec, clock, meta>>

-----------------------------------------------------------------------------
(* The system: requests of every endpoint in the slots, each running one   *)
(* await at a time, the customer paying, the platform clearing answers.    *)

\* The platform running one request at a time.
Next ==
    \/ webhook("a")
    \/ retrieveSession("a")
    \/ getBookings("a")
    \/ updateBookingStatus("a")
    \/ getEvents("a")
    \/ getAccessToken("a")
    \/ appendBooking("a")
    \/ updateSpots("a")
    \/ createDirectBooking("a")
    \/ createCheckout("a")
    \/ createSession("a")
    \/ bookingDetails("a")
    \/ readForDetails("a")
    \/ Finish("a")
    \/ \E s \in SessionIds : CustomerPays(s)

Spec == Init /\ [][Next]_vars

\* Two requests at a time on one event, the payment already made: a checkout
\* session for E1 exists and is paid, the webhook version is the one that
\* appends the booking row and cuts the spots.
InitRace ==
    /\ bookings = <<BookingHeader>>
    /\ \E c \in InitSpotCells :
        events = <<EventHeader,
                   EventRow(E1, DateText(30, 1, 2025), TimeText(10, 0, AM),
                            NatToStr(MaxSpots), c),
                   EventRow(E2, DateText(15, 6, 2025), TimeText(2, 30, PM),
                            <<"1">>, <<"1">>)>>
    /\ sessions = [s \in SessionIds |-> [exists |-> TRUE, eventId |-> E1,
                                          payment_intent |-> PaymentIntentOf(s)]]
    /\ deployed \in [webhook : {"WSave"}, checkout : {"CPlain"},
                     direct : Variants.direct, details : {"B404"}]
    /\ req = [r \in Slots |-> IdleReq]
    /\ conv = ConvIdle
    /\ dec = DecIdle
    /\ clock = 0
    /\ meta = MetaIdle

NextRace ==
    \/ \E r \in Slots : webhook(r)
    \/ \E r \in Slots : retrieveSession(r)
    \/ \E r \in Slots : getEvents(r)
    \/ \E r \in Slots : appendBooking(r)
    \/ \E r \in Slots : updateSpots(r)
    \/ \E r \in Slots : createDirectBooking(r)
    \/ \E r \in Slots : Finish(r)

SpecRace == InitRace /\ [][NextRace]_vars

\* The webhook versions that look the booking row up, on a Bookings sheet that
\* already has rows: the booking rows of a paid checkout session of E1 or E2,
\* written under the session id or the payment intent id, possibly more than
\* once, each row with the booking id of an earlier millisecond.
BookedRows ==
    [C : {E1, E2},
     I : SessionIds \cup {PaymentIntentOf(s) : s \in SessionIds},
     J : {Pending, Confirmed}]

InitStatus ==
    /\ \E n \in 1..MaxBookings : \E rows \in [1..n -> BookedRows] :
        bookings = <<BookingHeader>> \o
                   [i \in 1..n |-> [A |-> BookingId(i - 1), C |-> rows[i].C,
                                    I |-> rows[i].I, J |-> rows[i].J]]
    /\ events = <<EventHeader,
                  EventRow(E1, DateText(30, 1, 2025), TimeText(10, 0, AM),
                           NatToStr(MaxSpots), NatToStr(MaxSpots)),
                  EventRow(E2, DateText(15, 6, 2025), TimeText(2, 30, PM),
                           <<"1">>, <<"1">>)>>
    /\ sessions = [s \in SessionIds |-> [exists |-> TRUE, eventId |-> E1,
                                          payment_intent |-> PaymentIntentOf(s)]]
    /\ deployed \in [webhook : {"WStatus", "WBoth", "WSpots"}, checkout : {"CSheets"},
                     direct : {"DThrow"}, details : {"B404"}]
    /\ req = [r \in Slots |-> IdleReq]
    /\ conv = ConvIdle
    /\ dec = DecIdle
    /\ clock = MaxBookings
    /\ meta = MetaIdle

NextStatus ==
    \/ webhook("a")
    \/ retrieveSession("a")
    \/ getBookings("a")
    \/ updateBookingStatus("a")
    \/ getEvents("a")
    \/ updateSpots("a")
    \/ Finish("a")

SpecStatus == InitStatus /\ [][NextStatus]_vars

\* The header rows a Bookings sheet may have: the columns as the handlers
\* append them, and a sheet whose owner keeps the status before the payment
\* reference.
BookingLayouts ==
    {BookingHeader,
     [A |-> T("booking_id"), C |-> T("event_id"),
      I |-> T("status"), J |-> T("stripe_payment_id")]}

\* The row of a sheet of that header with these cells.
RowUnder(header, id, ev, ref, st) ==
    [c \in {"A", "C", "I", "J"} |->
        CASE header[c] = T("booking_id") -> id
          [] header[c] = T("event_id") -> ev
          [] header[c] = T("stripe_payment_id") -> ref
          [] OTHER -> st]

\* The webhook versions that set the status of the booking row, on a sheet of
\* either layout that holds the rows of a paid checkout session.
InitLayout ==
    /\ \E header \in BookingLayouts : \E n \in 1..MaxBookings :
       \E rows \in [1..n -> BookedRows] :
        bookings = <<header>> \o
                   [i \in 1..n |-> RowUnder(header, BookingId(i - 1), rows[i].C,
                                             rows[i].I, rows[i].J)]
    /\ events = <<EventHeader,
                  EventRow(E1, DateText(30, 1, 2025), TimeText(10, 0, AM),
                           NatToStr(MaxSpots), NatToStr(MaxSpots)),
                  EventRow(E2, DateText(15, 6, 2025), TimeText(2, 30, PM),
                           <<"1">>, <<"1">>)>>
    /\ sessions = [s \in SessionIds |-> [exists |-> TRUE, eventId |-> E1,
                                          payment_intent |-> PaymentIntentOf(s)]]
    /\ deployed \in [webhook : {"WStatus", "WBoth"}, checkout : {"CSheets"},
                     direct : {"DThrow"}, details : {"B404"}]
    /\ req = [r \in Slots |-> IdleReq]
    /\ conv = ConvIdle
    /\ dec = DecIdle
    /\ clock = MaxBookings
    /\ meta = MetaIdle

NextLayout ==
    \/ webhook("a")
    \/ retrieveSession("a")
    \/ getBookings("a")
    \/ updateBookingStatus("a")
    \/ Finish("a")

SpecLayout == InitLayout /\ [][NextLayout]_vars

\* A millisecond passes.
Tick ==
    /\ clock < MaxMillis
    /\ clock' = clock + 1
    /\ UNCHANGED <<bookings, events, sessions, deployed, req, conv, dec, meta>>

\* Direct bookings, whose booking id is generated on entry, two requests at a
\* time, while the clock runs.
InitIds ==
    /\ bookings = <<BookingHeader>>
    /\ events = <<EventHeader,
                  EventRow(E1, DateText(30, 1, 2025), TimeText(10, 0, AM),
                           NatToStr(MaxSpots), NatToStr(MaxSpots)),
                  EventRow(E2, DateText(15, 6, 2025), TimeText(2, 30, PM),
                           <<"1">>, <<"1">>)>>
    /\ sessions = [s \in SessionIds |-> [exists |-> TRUE, eventId |-> E1,
                                          payment_intent |-> PaymentIntentOf(s)]]
    /\ deployed \in [webhook : {"WSave"}, checkout : {"CPlain"},
                     direct : Variants.direct, details : {"B404"}]
    /\ req = [r \in Slots |-> IdleReq]
    /\ conv = ConvIdle
    /\ dec = DecIdle
    /\ clock = 0
    /\ meta = MetaIdle

NextIds ==
    \/ \E r \in Slots : getEvents(r)
    \/ \E r \in Slots : appendBooking(r)
    \/ \E r \in Slots : updateSpots(r)
    \/ \E r \in Slots : createDirectBooking(r)
    \/ \E r \in Slots : Finish(r)
    \/ Tick

SpecIds == InitIds /\ [][NextIds]_vars

\* The webhook handlers alone, every version of them, with a paid checkout
\* session of E1 and a Bookings sheet that may hold its row.
InitHooks ==
    /\ \E rows \in {<<>>, <<RowUnder(BookingHeader, BookingId(0), E1,
                                       PaymentIntentOf(CsTest \o T("1")), Pending)>>} :
        bookings = <<BookingHeader>> \o rows
    /\ \E c \in InitSpotCells :
        events = <<EventHeader,
                   EventRow(E1, DateText(30, 1, 2025), TimeText(10, 0, AM),
                            NatToStr(MaxSpots), c),
                   EventRow(E2, DateText(15, 6, 2025), TimeText(2, 30, PM),
                            <<"1">>, <<"1">>)>>
    /\ sessions = [s \in SessionIds |-> [exists |-> TRUE, eventId |-> E1,
                                          payment_intent |-> PaymentIntentOf(s)]]
    /\ deployed \in [webhook : Variants.webhook, checkout : {"CPlain"},
                     direct : {"DThrow"}, details : {"B404"}]
    /\ req = [r \in Slots |-> IdleReq]
    /\ conv = ConvIdle
    /\ dec = DecIdle
    /\ clock = 1
    /\ meta = MetaIdle

NextHooks ==
    \/ webhook("a")
    \/ retrieveSession("a")
    \/ getBookings("a")
    \/ updateBookingStatus("a")
    \/ getEvents("a")
    \/ getAccessToken("a")
    \/ appendBooking("a")
    \/ updateSpots("a")
    \/ Finish("a")

\* Every call a handler awaits settles, resolved or rejected, and the
\* platform goes on running the handler.
SpecHooks == InitHooks /\ [][NextHooks]_vars /\ WF_vars(NextHooks)

\* Direct bookings of a new event: no booking yet, and the spots cell of E1
\* still holds the event's total_spots, a number from 0 to MaxSpots.  No
\* handler writes total_spots, so that cell keeps the number the spots had
\* before the first request.
InitDirect ==
    /\ bookings = <<BookingHeader>>
    /\ \E n \in 0..MaxSpots :
        events = <<EventHeader,
                   EventRow(E1, DateText(30, 1, 2025), TimeText(10, 0, AM),
                            NatToStr(n), NatToStr(n)),
                   EventRow(E2, DateText(15, 6, 2025), TimeText(2, 30, PM),
                            <<"1">>, <<"1">>)>>
    /\ sessions = [s \in SessionIds |-> [exists |-> FALSE, eventId |-> Undefined,
                                          payment_intent |-> Null]]
    /\ deployed \in [webhook : {"WSave"}, checkout : {"CPlain"},
                     direct : Variants.direct, details : {"B404"}]
    /\ req = [r \in Slots |-> IdleReq]
    /\ conv = ConvIdle
    /\ dec = DecIdle
    /\ clock = 0
    /\ meta = MetaIdle

\* Direct-booking requests, two at a time.
NextDirect ==
    \/ \E r \in Slots : createDirectBooking(r)
    \/ \E r \in Slots : getEvents(r)
    \/ \E r \in Slots : appendBooking(r)
    \/ \E r \in Slots : updateSpots(r)
    \/ \E r \in Slots : Finish(r)

SpecDirect == InitDirect /\ [][NextDirect]_vars

\* No call of an invocation in flight has been rejected.
NoCallFailed == \A r \in Slots : \A i \in 1..Len(req[r].log) : req[r].log[i].ok

\* The three row-store calls of a direct booking on a row store that rejects
\* no call.
getEventsServed(r) == getEvents(r) /\ NoCallFailed'
appendBookingServed(r) == appendBooking(r) /\ NoCallFailed'
updateSpotsServed(r) == updateSpots(r) /\ NoCallFailed'

\* Direct-booking requests one at a time, on a row store that rejects no call.
NextDirectAlone ==
    \/ createDirectBooking("a")
    \/ getEventsServed("a")
    \/ appendBookingServed("a")
    \/ updateSpotsServed("a")
    \/ Finish("a")

SpecDirectAlone == InitDirect /\ [][NextDirectAlone]_vars

-----------------------------------------------------------------------------
(* The booking's fields from create-checkout to the webhook's row.  The    *)
(* checkout handler puts them in the session metadata, the provider keeps  *)
(* them as texts, the webhook of webhook.js reads them back.               *)

\* array.join(', ').
RECURSIVE Join(_)
Join(list) ==
    IF list = <<>> THEN Empty
    ELSE IF Len(list) = 1 THEN T(list[1])
    ELSE T(list[1]) \o T(", ") \o Join(Tail(list))

\* The amounts (whole pounds) and add-on lists a client submits; Undefined is
\* a body without addons.
MetaAmounts == {0, 1, 10, 25, 100}
AddonLists == {Undefined, <<>>, <<"Mat">>, <<"Mat", "Towel">>}
\* `addons ? addons.join(', ') : 'none'`: an array, the empty one too, is truthy.
AddonsText(addons) == IF addons = Undefined THEN T("none") ELSE Join(addons)

\* The metadata object of stripe.checkout.sessions.create in each version of
\* create-checkout.  originalAmount, discountCode and discountAmount of
\* CSheets are the discount's, which this client does not use.
CheckoutMetadata(v, b) ==
    IF v = "CSheets"
    THEN [eventId |-> b.eventId, eventName |-> T("Yoga"), customerName |-> T("Ann"),
          customerEmail |-> T("ann@example.org"), skillLevel |-> T("Beginner"),
          addons |-> AddonsText(b.addons), originalAmount |-> Undefined,
          discountCode |-> T("none"), discountAmount |-> <<"0">>]
    ELSE [eventId |-> b.eventId, eventName |-> T("Yoga"), customerName |-> T("Ann"),
          addons |-> AddonsText(b.addons)]

\* What the provider keeps of a metadata object: a key whose value is
\* undefined is not sent; a key whose value is the empty text is kept or
\* dropped (keepEmpty).
KeptMetadata(md, keepEmpty) ==
    LET keys == {k \in DOMAIN md : md[k] # Undefined /\ (md[k] = Empty => keepEmpty)}
    IN  [k \in keys |-> md[k]]

\* metadata.<key> of the retrieved session.
MetadataField(md, k) == IF k \in DOMAIN md THEN md[k] ELSE Undefined

\* The fields the webhook reads from the metadata (webhook.js:50-57).
WebhookFields ==
    {"eventId", "eventName", "customerName", "customerEmail", "skillLevel",
     "addons", "amount"}

\* parseFloat of a metadata text holding a whole amount, NaN for undefined.
ParseFloat(x) == IF x = Undefined THEN NaN ELSE ParseDigits(x, 10, 0, FALSE)

\* The cells G (amount_paid) and H (addons_selected) of the webhook's row:
\* amount = parseFloat(metadata.amount), written Number(amount.toFixed(2));
\* addons = metadata.addons === 'None' ? '' : metadata.addons, written
\* addons || ''.
WebhookCells(md) ==
    LET addons == IF MetadataField(md, "addons") = T("None") THEN Empty
                  ELSE MetadataField(md, "addons")
    IN  [G |-> ParseFloat(MetadataField(md, "amount")),
         H |-> IF Falsy(addons) THEN Empty ELSE addons]

MetaBodies ==
    {[phase |-> "body", version |-> v, eventId |-> E1, amount |-> a, addons |-> l] :
        v \in Variants.checkout, a \in MetaAmounts, l \in AddonLists}

InitMeta ==
    /\ NoStore
    /\ conv = ConvIdle
    /\ dec = DecIdle
    /\ meta \in MetaBodies

\* create-checkout creates the session with its metadata.
StoreMetadata ==
    /\ meta.phase = "body"
    /\ \E keepEmpty \in {TRUE, FALSE} :
        meta' = [phase |-> "stored", version |-> meta.version,
                 eventId |-> meta.eventId, amount |-> meta.amount,
                 addons |-> meta.addons,
                 metadata |-> KeptMetadata(CheckoutMetadata(meta.version, meta), keepEmpty)]
    /\ UNCHANGED <<bookings, events, sessions, deployed, req, conv, dec, clock>>

\* The webhook builds its booking row from the metadata of the session.
ReadMetadata ==
    /\ meta.phase = "stored"
    /\ meta' = [phase |-> "written", version |-> meta.version,
                eventId |-> meta.eventId, amount |-> meta.amount,
                addons |-> meta.addons, metadata |-> meta.metadata,
                cells |-> WebhookCells(meta.metadata)]
    /\ UNCHANGED <<bookings, events, sessions, deployed, req, conv, dec, clock>>

NextMeta == StoreMetadata \/ ReadMetadata

SpecMeta == InitMeta /\ [][NextMeta]_vars

-----------------------------------------------------------------------------
(* Claims about the handlers.                                              *)

\* The call was made by the invocation, whatever its outcome.
Called(q, call) == \E i \in 1..Len(q.log) : q.log[i].call = call

\* The invocation has answered.
Answered(q) == q.pc = "done"

\* The data rows of Bookings for event e.
RowsFor(e) == {i \in 2..Len(bookings) : bookings[i].C = e}

\* C1: two requests (webhook confirmations or direct bookings) that each
\* appended a booking row and each wrote the spots cell of the same event after
\* reading the same value leave the cell one below the value read, not two: the
\* second write repeats the first, one decrement is lost.
C1_LostUpdate ==
    \A r1, r2 \in Slots :
        LET q1 == req[r1]
            q2 == req[r2]
        IN  (/\ r1 # r2
             /\ Answered(q1) /\ Answered(q2)
             /\ Did(q1, "bookings.append") /\ Did(q2, "bookings.append")
             /\ Did(q1, "events.update") /\ Did(q2, "events.update")
             /\ q1.rowIdx = q2.rowIdx
             /\ q1.spotsRead = q2.spotsRead)
            => /\ events[q1.rowIdx].J = WrittenCell(NewSpots(q1.spotsRead))
               /\ Cardinality(RowsFor(events[q1.rowIdx].A)) >= 2

\* C1's case: both slots have answered 200 after appending a row for E1 and
\* writing its spots; both had read MaxSpots, and the cell is down by one only.
C1_Witness ==
    /\ \A r \in Slots :
        /\ Answered(req[r]) /\ req[r].status = 200
        /\ Did(req[r], "bookings.append") /\ Did(req[r], "events.update")
        /\ req[r].eventId = E1
        /\ req[r].spotsRead = NatToStr(MaxSpots)
    /\ Cardinality(RowsFor(E1)) = 2
    /\ events[2].J = NatToStr(MaxSpots - 1)

\* A direct-booking request that found its event with no spots left.
DirectWithoutSpots(q) ==
    /\ q.kind = "direct" /\ Answered(q)
    /\ q.rowIdx # 0
    /\ OrZero(ParseInt(q.spotsRead)) <= 0

\* C2: a direct booking whose event's spots cell parses to a value <= 0
\* (non-numeric and missing cells included) answers 500 with the 'No spots
\* remaining' message, and makes neither the append nor the spots write.
C2_NoSpotsRejected ==
    \A r \in Slots :
        DirectWithoutSpots(req[r]) =>
            /\ req[r].status = 500
            /\ req[r].body.kind = "error"
            /\ req[r].body.details = NoSpotsMessage(req[r].variant)
            /\ ~Called(req[r], "bookings.append")
            /\ ~Called(req[r], "events.update")

\* C2's case: create-direct-booking.js has refused a booking of the event whose
\* spots cell is the text 'abc'.
C2_Witness ==
    \E r \in Slots :
        /\ DirectWithoutSpots(req[r])
        /\ req[r].variant = "DThrow"
        /\ req[r].spotsRead = <<"a", "b", "c">>
        /\ req[r].status = 500

\* The invocation appended its booking row and then had its spots write rejected.
UpdateRejectedAfterAppend(q) ==
    /\ Answered(q)
    /\ Did(q, "bookings.append")
    /\ Called(q, "events.update") /\ ~Did(q, "events.update")

\* C3: when the spots write is rejected after the booking row was appended,
\* saveCompleteBookingAfterPayment and create-direct-booking still answer 200
\* and the row stays.
C3_UpdateFailureCaught ==
    \A r \in Slots :
        (UpdateRejectedAfterAppend(req[r]) /\ req[r].variant \in {"WSave", "DThrow", "DCatch"})
            => /\ req[r].status = 200
               /\ \E i \in 2..Len(bookings) : bookings[i] = bookingRow(req[r])

\* A POST to one of the webhook versions that take the identifier from the
\* body's sessionId alone (all but the version with signed events).
BySessionId(q) ==
    /\ q.kind = "webhook" /\ q.variant # "WSheets"
    /\ q.method = "POST"
    /\ ~Falsy(q.sessionId)

\* The row-store calls.
StoreCalls == {"bookings.get", "bookings.append", "bookings.update",
               "events.get", "events.update"}

\* C4: a webhook request whose sessionId is not empty and has neither checkout
\* prefix makes no provider call, keeps the identifier as the payment intent id
\* and goes on to the row store with it instead of failing first.
C4_UnprefixedUsedUnchanged ==
    \A r \in Slots :
        (BySessionId(req[r]) /\ ~IsCheckoutSessionId(req[r].sessionId))
            => /\ ~Called(req[r], "retrieve")
               /\ Answered(req[r]) =>
                    /\ req[r].key = req[r].sessionId
                    /\ \E c \in StoreCalls : Called(req[r], c)

\* The identifiers a webhook invocation hands to the row store once the
\* provider has resolved the session: the cell it appends as payment reference,
\* or the keys it looks the booking up by.
HandedToStore(q) ==
    IF q.variant = "WSave" THEN {bookingRow(q).I} ELSE LookupKeys(q)

\* What the provider can have resolved the session to: its payment intent, or
\* null while the session is unpaid.
ResolvedIds(q) == {PaymentIntentOf(q.sessionId), Null}

\* The provider call came first and went through.
ResolvedFirst(q) == q.log # <<>> /\ q.log[1] = [call |-> "retrieve", ok |-> TRUE]

\* C5 as stated: for a sessionId with a checkout prefix the provider is called
\* before any row-store call, and what is written as payment reference or
\* passed as lookup key is the resolved payment intent id and not the raw
\* session id.
C5_OnlyResolvedIdUsed ==
    \A r \in Slots :
        (BySessionId(req[r]) /\ IsCheckoutSessionId(req[r].sessionId)
            /\ \E c \in StoreCalls : Called(req[r], c))
            => /\ ResolvedFirst(req[r])
               /\ HandedToStore(req[r]) \subseteq ResolvedIds(req[r])

\* C5: for a sessionId with a checkout prefix the provider is called before any
\* row-store call; the resolved payment intent id is what webhook.js writes as
\* payment reference (first handler) or passes as the only lookup key (second
\* handler); the versions of part_000 and part_001 pass the raw session id and
\* the resolved id, both, as lookup keys.
C5_ResolvedBeforeStore ==
    \A r \in Slots :
        (BySessionId(req[r]) /\ IsCheckoutSessionId(req[r].sessionId)
            /\ \E c \in StoreCalls : Called(req[r], c))
            => /\ ResolvedFirst(req[r])
               /\ HandedToStore(req[r]) \cap ResolvedIds(req[r]) # {}
               /\ req[r].variant = "WSave" =>
                    HandedToStore(req[r]) = {PaymentIntentOf(req[r].sessionId)}
               /\ req[r].variant = "WStatus" =>
                    HandedToStore(req[r]) \subseteq ResolvedIds(req[r])
               /\ req[r].variant \in {"WBoth", "WSpots"} =>
                    HandedToStore(req[r]) \ ResolvedIds(req[r]) = {req[r].sessionId}

\* C5's case: the first handler of webhook.js has appended the row of a checkout
\* session, its payment reference the session's payment intent.
C5_Witness ==
    \E r \in Slots :
        /\ BySessionId(req[r]) /\ IsCheckoutSessionId(req[r].sessionId)
        /\ req[r].variant = "WSave"
        /\ Did(req[r], "bookings.append")
        /\ bookings[Len(bookings)].I = PaymentIntentOf(req[r].sessionId)

\* The data rows of Bookings whose payment reference is session s or its
\* payment intent.
RowsOf(s) == {i \in 2..Len(bookings) : bookings[i].I \in {s, PaymentIntentOf(s)}}

\* C6: a booking that went through create-checkout and the webhook has its row
\* written at one of the two and never at both: no session has a row written
\* at checkout ('pending') and a row written at confirmation ('Confirmed').
C6_RowWrittenOnce ==
    \A s \in SessionIds :
        ~(\E i, j \in RowsOf(s) : bookings[i].J = Pending /\ bookings[j].J = Confirmed)

\* A booking-details request that read both grids and found no booking row
\* with its session_id.
NoBookingMatches(q) ==
    /\ q.kind = "details" /\ Answered(q)
    /\ Did(q, "bookings.get") /\ Did(q, "events.get")
    /\ FindAnyRow(q.snapB, "I", q.sessionId) = 0

\* C7: booking-details answers 404 when no booking row matches the session_id,
\* never 200.
C7_NotFoundIs404 ==
    \A r \in Slots : NoBookingMatches(req[r]) => req[r].status = 404

\* C8: once the webhook has recorded the booking of checkout session S (the
\* row's payment reference is S's payment intent), a booking-details request
\* for session_id = S answers with the merged details of that row.
C8_DetailsOfSession ==
    \A r \in Slots :
        LET q == req[r] IN
        (/\ q.kind = "details" /\ Answered(q)
         /\ Did(q, "bookings.get") /\ Did(q, "events.get")
         /\ q.sessionId \in SessionIds
         /\ \E i \in 2..Len(q.snapB) :
              /\ q.snapB[i].I = PaymentIntentOf(q.sessionId)
              /\ q.snapB[i].J = Confirmed
              /\ q.snapB[i].C = E1)
        => /\ q.status = 200
           /\ q.body.kind = "details"
           /\ q.body.stripe_payment_id = PaymentIntentOf(q.sessionId)

\* 0 <= spots_remaining <= total_spots in every event row of the grid.
SpotsInRange(rows) ==
    \A i \in 2..Len(rows) :
        LET spots == ParseInt(rows[i].J)
            total == ParseInt(rows[i].I)
        IN  /\ ~spots.nan /\ ~total.nan
            /\ 0 <= spots.n /\ spots.n <= total.n

\* C11: no step of a webhook confirmation or of a direct booking, however the
\* requests interleave, takes the Events grid out of
\* 0 <= spots_remaining <= total_spots.
C11_SpotsStayInRange == [][SpotsInRange(events) => SpotsInRange(events')]_vars

\* C11's case: a webhook confirmation and a direct booking, in flight together,
\* have both written the spots of E1, starting from a grid in range.
C11_Witness ==
    /\ SpotsInRange(events)
    /\ \E r1, r2 \in Slots :
        /\ req[r1].kind = "webhook" /\ req[r2].kind = "direct"
        /\ Answered(req[r1]) /\ Answered(req[r2])
        /\ Did(req[r1], "events.update") /\ Did(req[r2], "events.update")
        /\ ~req[r1].spotsRead \in {Undefined, <<"a", "b", "c">>}
        /\ events[2].J = <<"0">>

\* The provider call of a webhook invocation was rejected.
ProviderFailed(q) ==
    /\ q.kind = "webhook"
    /\ Called(q, "retrieve") /\ ~Did(q, "retrieve")

\* C12: a webhook invocation whose provider call fails answers 500 and makes
\* no row-store call (and no token exchange leading to one).
C12_ProviderFailureAborts ==
    \A r \in Slots :
        ProviderFailed(req[r]) =>
            /\ Answered(req[r]) /\ req[r].status = 500
            /\ \A c \in StoreCalls \cup {"token"} : ~Called(req[r], c)

\* C12's case: the provider has rejected the retrieval of a session that
\* exists, in the first handler of webhook.js.
C12_Witness ==
    \E r \in Slots :
        /\ ProviderFailed(req[r])
        /\ req[r].variant = "WSave"
        /\ Retrievable(req[r].sessionId)
        /\ req[r].status = 500

\* A request that lacks a field its endpoint requires: the webhook's sessionId
\* (a 'booking.confirmed' request of the success page), a field of the direct
\* booking form, the skill level of create-checkout.js (part_002 has no such
\* field), the session_id of booking-details.
MissingField(q) ==
    \/ /\ q.kind = "webhook" /\ q.method = "POST"
       /\ q.signature = "none" /\ q.type = "booking.confirmed"
       /\ Falsy(q.sessionId)
    \/ q.kind = "direct" /\ q.method = "POST" /\ (Falsy(q.eventId) \/ ~q.fieldsOk)
    \/ q.kind = "checkout" /\ q.variant = "CSheets" /\ q.method = "POST" /\ ~q.fieldsOk
    \/ q.kind = "details" /\ q.method = "GET" /\ Falsy(q.sessionId)

\* C13: a request that lacks a required field is answered 400 at once, with no
\* provider call and no row-store call made for it.
C13_MissingFieldIs400 ==
    \A r \in Slots :
        MissingField(req[r]) =>
            /\ Answered(req[r]) /\ req[r].status = 400
            /\ req[r].log = <<>>

\* A booking-details request that read both grids and found a booking row
\* whose event_id no row of Events carries.
BookingOfMissingEvent(q) ==
    /\ q.kind = "details" /\ Answered(q)
    /\ Did(q, "bookings.get") /\ Did(q, "events.get")
    /\ LET b == FindAnyRow(q.snapB, "I", q.sessionId)
       IN  /\ b # 0
           /\ FindAnyRow(q.snapE, "A", q.snapB[b].C) = 0

\* C14: booking-details answers 404, with an error body and no merged fields,
\* when the booking row it found names an event that no event row matches.
C14_MissingEventIs404 ==
    \A r \in Slots :
        BookingOfMissingEvent(req[r]) =>
            /\ req[r].status = 404
            /\ req[r].body.kind = "error"

\* C14's case: the booking row found is the one create-checkout.js wrote for
\* the event id E9, which Events does not have.
C14_Witness ==
    \E r \in Slots :
        /\ BookingOfMissingEvent(req[r])
        /\ req[r].snapB[FindAnyRow(req[r].snapB, "I", req[r].sessionId)].C = E9
        /\ req[r].status = 404

\* C15: a lookup never returns the header row: booking-details answers merged
\* details only when a data row carries the session_id, and the row a webhook
\* or direct-booking lookup settles on is never row 1.
C15_HeaderNeverMatched ==
    \A r \in Slots :
        /\ req[r].rowIdx # 1
        /\ (/\ req[r].kind = "details" /\ Answered(req[r])
            /\ req[r].body.kind = "details")
           => \E i \in 2..Len(req[r].snapB) : req[r].snapB[i].I = req[r].sessionId

\* The data rows of Bookings the lookup of the invocation matches.
Matching(q) == DataRowsWith(bookings, "I", LookupKeys(q))

\* The lookup of the invocation ends on a row in this step.
Selects(r) ==
    /\ req[r].kind = "webhook" /\ req[r].pc = "bookings.get"
    /\ req'[r].pc \in {"bookings.update", "events.get"}

\* The status update of the invocation succeeds in this step.
Writes(r) ==
    /\ req[r].kind = "webhook" /\ req[r].pc = "bookings.update"
    /\ Did(req'[r], "bookings.update")

\* C16: when several data rows match the lookup key, the row selected (and,
\* by updateBookingStatus, written) is the matching row with the smallest row
\* index; the event id is taken from that row; no other row is touched.
C16_FirstMatchSelected ==
    [][/\ bookings' # bookings => \E r \in Slots : Writes(r)
       /\ \A r \in Slots :
        /\ Selects(r) =>
              /\ req'[r].rowIdx \in Matching(req[r])
              /\ \A j \in Matching(req[r]) : req'[r].rowIdx <= j
              /\ req[r].variant = "WSpots" =>
                    req'[r].eventId = bookings[req'[r].rowIdx].C
        /\ Writes(r) =>
              /\ req[r].rowIdx \in Matching(req[r])
              /\ \A j \in Matching(req[r]) : req[r].rowIdx <= j
              /\ bookings'[req[r].rowIdx].J = Completed
              /\ \A j \in 1..Len(bookings) :
                    j # req[r].rowIdx => bookings'[j] = bookings[j]]_vars

\* A webhook has set the first of two matching rows to 'completed' and left
\* the second as it was.
C16_Witness ==
    \E r \in Slots :
        /\ req[r].kind = "webhook" /\ Answered(req[r]) /\ req[r].status = 200
        /\ Did(req[r], "bookings.update")
        /\ Len(bookings) >= 3
        /\ {2, 3} \subseteq Matching(req[r])
        /\ req[r].rowIdx = 2
        /\ bookings[2].J = Completed
        /\ bookings[3].J # Completed

\* The booking rows that carry a payment reference: the direct bookings carry
\* the marker 'DIRECT_BOOKING' and a session without payment intent leaves
\* the cell empty.
PaidRows == {i \in 2..Len(bookings) : bookings[i].I \notin {DirectMarker, Empty}}

\* C17: no two booking rows carry the same payment reference
\* (stripe_payment_id), whatever requests were made.
C17_PaymentReferenceUnique ==
    \A i, j \in PaidRows : bookings[i].I = bookings[j].I => i = j

\* C18: booking_id is a unique token: no two booking rows have the same
\* booking_id, whatever the interleaving of the booking-creating requests and
\* whatever milliseconds the clock showed them.
C18_BookingIdUnique ==
    \A i, j \in 2..Len(bookings) : bookings[i].A = bookings[j].A => i = j

\* The instant (minutes since 1970-01-01T00:00Z) an ISO text names.
Instant(iso) ==
    DaysFromCivil(iso.year, iso.month, iso.day) * 1440 + iso.hour * 60 + iso.minute

\* A date of the shape DD/MM/YYYY and a time of the shape H:MM AM or H:MM PM.
DateShaped(s) ==
    /\ Len(s) = 10 /\ s[3] = "/" /\ s[6] = "/"
    /\ AllDigits(SubSeq(s, 1, 2)) /\ AllDigits(SubSeq(s, 4, 5))
    /\ AllDigits(SubSeq(s, 7, 10))
TimeShaped(s) ==
    \E k \in {1, 2} :
        /\ Len(s) = k + 6 /\ AllDigits(SubSeq(s, 1, k)) /\ s[k + 1] = ":"
        /\ AllDigits(SubSeq(s, k + 2, k + 3)) /\ s[k + 4] = " "
        /\ SubSeq(s, k + 5, k + 6) \in {AM, PM}

\* A date and time of the right shape that name no instant: a month past 12
\* or an hour past 12.
NoSuchInstant(ds, ts) ==
    /\ DateShaped(ds) /\ TimeShaped(ts)
    /\ \/ DecVal(SubSeq(ds, 4, 5)) \notin 1..12
       \/ DecVal(Nth(Split(ts, ":"), 1)) \notin 1..12

\* C19: convertToISODates answers for every input; when the date or the time
\* is missing, of the wrong shape, or names no instant, the answer is the
\* fallback, which starts tomorrow at 10:00; and in the parsed and in the
\* fallback answer the end is exactly 2 hours after the start.
C19_FallbackOnBadInput ==
    conv.phase = "done" =>
        /\ conv.out.path \in {"parsed", "fallback"}
        /\ (\/ Falsy(conv.dateStr) \/ Falsy(conv.timeStr)
            \/ ~DateShaped(conv.dateStr) \/ ~TimeShaped(conv.timeStr)
            \/ NoSuchInstant(conv.dateStr, conv.timeStr))
           => conv.out.path = "fallback"
        /\ conv.out.path = "fallback" =>
              /\ Instant(conv.out.startDate) \div 1440 = conv.now \div 1440 + 1
              /\ conv.out.startDate.hour = 10 /\ conv.out.startDate.minute = 0
        /\ Instant(conv.out.endDate) - Instant(conv.out.startDate) = 2 * 60

\* A webhook that saves the booking has answered, having found its event with
\* no spot left (the cell 0, not a number, or missing).
ConfirmedWhenFull(q) ==
    /\ q.kind = "webhook" /\ q.variant \in {"WSave", "WSheets"}
    /\ Answered(q)
    /\ q.rowIdx # 0
    /\ NoSpotsLeft(q.spotsRead)

\* C20: a webhook confirmation for an event whose spots_remaining is already 0
\* (or not a number) is not rejected for lack of capacity: unless one of its
\* calls failed, it has appended the booking row with status 'Confirmed', it
\* answers 200 and the spots cell holds 0.
C20_FullEventStillConfirmed ==
    \A r \in Slots :
        (ConfirmedWhenFull(req[r]) /\ \A i \in 1..Len(req[r].log) : req[r].log[i].ok)
        => /\ req[r].status = 200
           /\ Did(req[r], "bookings.append")
           /\ bookings[Len(bookings)] = bookingRow(req[r])
           /\ bookings[Len(bookings)].J = Confirmed
           /\ Did(req[r], "events.update")
           /\ events[req[r].rowIdx].J = <<"0">>

\* The webhook of webhook.js has confirmed a booking of an event whose spots
\* cell was 0.
C20_Witness ==
    \E r \in Slots :
        /\ ConfirmedWhenFull(req[r])
        /\ req[r].variant = "WSave"
        /\ req[r].spotsRead = <<"0">>
        /\ req[r].status = 200
        /\ Len(bookings) >= 2 /\ bookings[Len(bookings)].J = Confirmed
        /\ events[req[r].rowIdx].J = <<"0">>

\* The row store has rejected the append of the invocation's booking row, or
\* its read of Bookings.
BookingCallRejected(q) ==
    \E c \in {"bookings.append", "bookings.get"} : Called(q, c) /\ ~Did(q, c)

\* C21: in every webhook variant, when the row store rejects the booking-row
\* append or the booking read, the handler answers with status 500.
C21_StoreRejectionIs500 ==
    \A r \in Slots :
        (req[r].kind = "webhook" /\ Answered(req[r]) /\ BookingCallRejected(req[r]))
        => req[r].status = 500

\* A step of a booking-details invocation: its arrival, one of its reads with
\* the answer that follows, or its end.
DetailsStep(r) ==
    /\ req'[r] # req[r]
    /\ req[r].kind = "details" \/ req'[r].kind = "details"

\* C22: booking-details never mutates the row store: over every step of a
\* booking-details request, whatever its outcome, the Bookings and Events
\* grids stay as they are.
C22_DetailsReadOnly ==
    [][\A r \in Slots : DetailsStep(r) => bookings' = bookings /\ events' = events]_vars

\* A booking-details request has answered the details of a booking on a sheet
\* that holds booking rows.
C22_Witness ==
    \E r \in Slots :
        /\ req[r].kind = "details" /\ Answered(req[r])
        /\ req[r].status = 200 /\ req[r].body.kind = "details"
        /\ Len(bookings) >= 2
        /\ req[r].snapB = bookings /\ req[r].snapE = events

\* C23: no booking or event row is deleted: over every step the row count of
\* each grid does not decrease, every row stays at its index, and of an event
\* row only the spots_remaining cell may change.
C23_NoRowDeleted ==
    [][/\ Len(bookings') >= Len(bookings)
       /\ Len(events') >= Len(events)
       /\ \A i \in 1..Len(bookings) :
            /\ bookings'[i].A = bookings[i].A /\ bookings'[i].C = bookings[i].C
            /\ bookings'[i].I = bookings[i].I
       /\ \A i \in 1..Len(events) :
            /\ events'[i].A = events[i].A /\ events'[i].I = events[i].I
            /\ events'[i].D = events[i].D /\ events'[i].E = events[i].E]_vars

\* A request has appended its booking row and written the spots cell of its
\* event.
C23_Witness ==
    \E r \in Slots :
        /\ Answered(req[r])
        /\ Did(req[r], "bookings.append") /\ Did(req[r], "events.update")
        /\ Len(bookings) >= 2
        /\ req[r].rowIdx = 2
        /\ events[2].J = WrittenCell(NewSpots(req[r].spotsRead))
        /\ events[2].J # req[r].spotsRead

\* C24: updateBookingStatus writes the new status into the cell of the matched
\* row in the column whose header is 'status', and changes no other cell,
\* wherever that column is in the header.
C24_StatusColumnWritten ==
    [][\A r \in Slots :
        Writes(r) =>
            LET stCol == IndexOf(BookingColumns, bookings[1], T("status"))
            IN  bookings' = [bookings EXCEPT ![req[r].rowIdx][stCol] = Completed]]_vars

\* C25: every metadata field the webhook reads to build the booking row is a
\* field create-checkout stored, so the amount_paid written equals the amount
\* submitted and an empty add-on list is written as the empty text.
C25_MetadataRoundTrip ==
    meta.phase = "written" =>
        /\ \A k \in WebhookFields : k \in DOMAIN CheckoutMetadata(meta.version, meta)
        /\ meta.cells.G = Num(meta.amount)
        /\ meta.addons = <<>> => meta.cells.H = Empty

\* The 'Confirmed' booking rows of the event.
ConfirmedRowsFor(e) == {i \in RowsFor(e) : bookings[i].J = Confirmed}

\* The spots the event of row i started with: its total_spots cell.
SpotsAtStart(i) == OrZero(ParseInt(events[i].I))

\* C26: when direct-booking requests for the same event interleave, the number
\* of 'Confirmed' booking rows appended for the event never exceeds the
\* spots_remaining the event had before the first of them.
C26_NoOverbooking ==
    Cardinality(ConfirmedRowsFor(E1)) <= SpotsAtStart(2)

\* C27: direct bookings run one at a time against an event that starts with n
\* spots, no store call failing: between requests the booking rows of the
\* event plus its spots_remaining make n, and a request answers 200 exactly
\* when it appended a row, so the 200 answers are as many as the rows.
C27_RowsPlusSpots ==
    /\ (\A r \in Slots : req[r].pc \in {"idle", "done"}) =>
          /\ ~ParseInt(events[2].J).nan
          /\ Cardinality(RowsFor(E1)) + ParseInt(events[2].J).n = SpotsAtStart(2)
    /\ \A r \in Slots :
          (req[r].kind = "direct" /\ Answered(req[r])) =>
              /\ req[r].status = 200 <=> Did(req[r], "bookings.append")
              /\ Did(req[r], "bookings.append") =>
                    bookings[Len(bookings)] = bookingRow(req[r])

\* Two direct bookings in a row have taken the two spots of the event.
C27_Witness ==
    /\ SpotsAtStart(2) = 2
    /\ Cardinality(RowsFor(E1)) = 2
    /\ events[2].J = <<"0">>
    /\ Answered(req["a"]) /\ req["a"].status = 200

\* C28: every booking row's event_id is the event_id of some row of the Events
\* grid: no handler appends a booking row for an event it did not find.
C28_BookingsOfKnownEvents ==
    \A i \in 2..Len(bookings) :
        \E j \in 2..Len(events) : events[j].A = bookings[i].C

\* The invocation's write of the spots cell goes through in this step.
WritesSpots(r) == req[r].pc = "events.update" /\ Did(req'[r], "events.update")

\* The position of the call in the invocation's log, 0 when it was not made.
CallIndex(q, call) ==
    IF Called(q, call) THEN CHOOSE i \in 1..Len(q.log) : q.log[i].call = call ELSE 0

HookRequest(r) == req[r].kind = "webhook"

\* C30: every request to a webhook handler, whatever its method, body and the
\* outcomes of the provider and row-store calls, ends with exactly one
\* response: never two are sent, and the one is sent in the end.
C30_ExactlyOneResponse ==
    /\ [](\A r \in Slots :
            HookRequest(r) =>
                /\ req[r].sent <= 1
                /\ Answered(req[r]) <=> req[r].sent = 1)
    /\ \A r \in Slots :
            HookRequest(r) ~> (HookRequest(r) /\ Answered(req[r]) /\ req[r].sent = 1)

\* A webhook request has answered 500 after its append was rejected, the
\* third call it awaited.
C30_Witness ==
    \E r \in Slots :
        /\ HookRequest(r) /\ Answered(req[r]) /\ req[r].sent = 1
        /\ req[r].status = 500
        /\ Len(req[r].log) = 3
        /\ Called(req[r], "bookings.append") /\ ~Did(req[r], "bookings.append")

=============================================================================
